---- MODULE Spec2Model ----
(***************************************************************************)
(* Model of restful.py: a command-line HTTP client.  One run of the        *)
(* program is one behaviour: main parses the command line, APITester's     *)
(* constructor dispatches one GET or POST, checks the status, and routes   *)
(* the response either to the pretty-printer or to Writer.save.            *)
(*                                                                         *)
(* Texts (the -d string, the response body, the output path) are sequences *)
(* of one-character or one-word tokens; the string operations the code     *)
(* performs on them (startswith, endswith, rsplit, json.loads, the         *)
(* f-string joins) are computed on those sequences.                        *)
(***************************************************************************)
EXTENDS Integers, Sequences, FiniteSets, TLC

\* Longest response body, in tokens, the environment returns.
MaxBodyLen == 4

(***************************************************************************)
(* Optional values (Python's None against a str).                          *)
(***************************************************************************)
None == [some |-> FALSE, val |-> <<>>]

Some(s) == [some |-> TRUE, val |-> s]

\* Variant: "is not None" in place of truthiness.
Truthy_NotNone(o) == o.some

\* Python truthiness of an optional string: None and '' are both falsy.
Truthy(o) == o.some /\ o.val # <<>>

(***************************************************************************)
(* Input alphabets.                                                        *)
(***************************************************************************)
\* Tokens of a response body: braces, brackets, whitespace, and "p", which
\* stands for one "k":"v" member of an object.
BodyChars == {"{", "}", "[", "]", "p", " "}

RECURSIVE SeqsUpTo(_, _)
SeqsUpTo(S, n) ==
  IF n = 0 THEN {<<>>}
  ELSE LET shorter == SeqsUpTo(S, n - 1)
       IN  shorter \cup {Append(s, c) : s \in {t \in shorter : Len(t) = n - 1}, c \in S}

Bodies == SeqsUpTo(BodyChars, MaxBodyLen)

\* -d arguments: absent, an object with one member, an array of one such
\* object, and a string that is not JSON.
DataArgs ==
  {None, Some(<<"{", "p", "}">>), Some(<<"[", "{", "p", "}", "]">>), Some(<<"{">>)}

\* -o arguments: absent, empty, and paths with and without an extension.
OutputArgs ==
  {None, Some(<<>>),
   Some(<<"out", ".", "json">>), Some(<<"a", ".", "b", ".", "csv">>),
   Some(<<"out", ".", "xml">>), Some(<<"out", ".", "JSON">>),
   Some(<<"out">>)}

Endpoints == {"posts", "posts/1"}

\* Positional words the user may type as the method.
MethodWords == {"get", "post", "put"}

Positionals ==
  {<<>>} \cup {<<m>> : m \in MethodWords}
         \cup {<<m, e>> : m \in MethodWords, e \in Endpoints}

\* Other tokens on the command line: none, an option argparse does not know, -h.
Extras == {"none", "unknown", "help"}

Argvs ==
  [positionals : Positionals, data : DataArgs, output : OutputArgs, extra : Extras]

\* Status codes the server may answer with (http.client accepts 100..999).
Statuses == {100, 199, 200, 299, 300, 404, 500, 600}

(***************************************************************************)
(* json.loads on a token sequence.                                         *)
(***************************************************************************)
Dict(n) == [kind |-> "dict", pairs |-> n, elems |-> <<>>]

List(es) == [kind |-> "list", pairs |-> 0, elems |-> es]

NullVal == [kind |-> "null", pairs |-> 0, elems |-> <<>>]

ParseFail == [ok |-> FALSE, next |-> 0, val |-> NullVal]

ParseOk(n, v) == [ok |-> TRUE, next |-> n, val |-> v]

\* First index >= i of s that holds no whitespace (Len(s)+1 when there is none).
RECURSIVE SkipWs(_, _)
SkipWs(s, i) ==
  IF i <= Len(s) /\ s[i] = " " THEN SkipWs(s, i + 1) ELSE i

\* One JSON value starting at s[i]: an object (empty or one member) or an
\* array (empty or one element).
RECURSIVE ParseValue(_, _)
ParseValue(s, i) ==
  IF i > Len(s) THEN ParseFail
  ELSE IF s[i] = "{" THEN
    LET j == SkipWs(s, i + 1) IN
    IF j > Len(s) THEN ParseFail
    ELSE IF s[j] = "}" THEN ParseOk(j + 1, Dict(0))
    ELSE IF s[j] = "p" THEN
      LET k == SkipWs(s, j + 1) IN
      IF k <= Len(s) /\ s[k] = "}" THEN ParseOk(k + 1, Dict(1)) ELSE ParseFail
    ELSE ParseFail
  ELSE IF s[i] = "[" THEN
    LET j == SkipWs(s, i + 1) IN
    IF j > Len(s) THEN ParseFail
    ELSE IF s[j] = "]" THEN ParseOk(j + 1, List(<<>>))
    ELSE
      LET r == ParseValue(s, j) IN
      IF ~r.ok THEN ParseFail
      ELSE LET k == SkipWs(s, r.next) IN
           IF k <= Len(s) /\ s[k] = "]"
           THEN ParseOk(k + 1, List(<<r.val>>)) ELSE ParseFail
  ELSE ParseFail

\* json.loads(s): the value, or ok = FALSE where it raises JSONDecodeError.
JsonLoads(s) ==
  LET r == ParseValue(s, SkipWs(s, 1)) IN
  IF r.ok /\ SkipWs(s, r.next) = Len(s) + 1
  THEN [ok |-> TRUE, val |-> r.val]
  ELSE [ok |-> FALSE, val |-> NullVal]

(***************************************************************************)
(* The body requests builds for requests.post(url, data=value): a mapping  *)
(* is form-encoded (one "k=v" word per member), an empty mapping or list   *)
(* gives no body, and a non-empty list whose elements are not pairs makes   *)
(* requests raise ValueError while it prepares the body.                   *)
(***************************************************************************)
NoBody == [kind |-> "none", text |-> <<>>]

FormBody(v) == [kind |-> "form", text |-> [i \in 1..v.pairs |-> "k=v"]]

EncodeDataRaises(v) == v.kind = "list" /\ v.elems # <<>>

EncodeData(v) ==
  IF v.kind = "dict" /\ v.pairs > 0 THEN FormBody(v) ELSE NoBody

(***************************************************************************)
(* Exception classes and the except clauses that match them.               *)
(***************************************************************************)
Base(cls) ==
  CASE cls = "JSONDecodeError" -> "ValueError"
    [] cls = "HTTPError" -> "RequestException"
    [] cls = "ConnectionError" -> "RequestException"
    [] cls = "RequestException" -> "OSError"
    [] cls \in {"TypeError", "ValueError", "OSError"} -> "Exception"
    [] cls \in {"Exception", "SystemExit"} -> "BaseException"
    [] OTHER -> "object"

RECURSIVE IsInstance(_, _)
IsInstance(cls, of) ==
  IF cls = of THEN TRUE
  ELSE IF cls \in {"BaseException", "object"} THEN FALSE
  ELSE IsInstance(Base(cls), of)

\* Variant: except ValueError in post.
PostCatches_ValueError(cls) == IsInstance(cls, "ValueError")

\* post: except TypeError
PostCatches(cls) == IsInstance(cls, "TypeError")

\* __init__: except Exception
InitCatches(cls) == IsInstance(cls, "Exception")

\* Variant: main with the except SystemExit clause alone.
MainCatches_SystemExitOnly(cls) == IsInstance(cls, "SystemExit")

\* main: except SystemExit / except Exception
MainCatches(cls) == IsInstance(cls, "SystemExit") \/ IsInstance(cls, "Exception")

(***************************************************************************)
(* Messages written to the terminal.                                       *)
(***************************************************************************)
UsageMsg == "usage: restful.py [-h] [-d DATA] [-o OUTPUT] {get,post} endpoint"

HelpMsg == "RESTful API Client"

HintMsg(code) ==
  IF code = 0 THEN "ExitCode:0    (-h for more info)"
  ELSE "ExitCode:2    (-h for more info)"

StatusMsg == "status_code:"

InvalidInputMsg == "Must required valid json data"

NonSuccessMsg == "Can't process non-success(2xx) request"

NotImplementedMsg == "not implemented for .{ext}"

DataDecodeMsg == "Expecting value"

TypeErrorMsg == "the JSON object must be str, bytes or bytearray, not NoneType"

EncodeMsg == "not enough values to unpack (request body)"

NetworkMsg == "Max retries exceeded with url"

HttpErrorMsg == "Client/Server Error for url"

BodyDecodeMsg == "Expecting value (response)"

ReadJsonMsg == "Unexpected character found when decoding"

UnpackMsg == "not enough values to unpack (expected 2, got 1)"

WriteMsg == "Cannot save file into a non-existent directory"

\* Messages that report a failure of the run (everything that is not the
\* status line, the usage hint, the not-implemented notice or program output).
FailureMsgs ==
  {InvalidInputMsg, NonSuccessMsg, DataDecodeMsg, TypeErrorMsg, EncodeMsg, NetworkMsg,
   HttpErrorMsg, BodyDecodeMsg, ReadJsonMsg, UnpackMsg, WriteMsg}

(***************************************************************************)
(* String helpers of the constructor and of Writer.save.                   *)
(***************************************************************************)
Domain == "https://jsonplaceholder.typicode.com"

\* f"{self.domain}/{self.payload['endpoint']}"
Url(endpoint) == <<Domain, "/", endpoint>>

StartsWith(s, c) == Len(s) > 0 /\ s[1] = c

EndsWith(s, c) == Len(s) > 0 /\ s[Len(s)] = c

\* Variant: the response text handed over as it came.
Normalize_Raw(text) == text

\* res_text handed to save: a text that starts with '{' and ends with '}'
\* is wrapped in '[' and ']'.
Normalize(text) ==
  IF StartsWith(text, "{") /\ EndsWith(text, "}")
  THEN <<"[">> \o text \o <<"]">>
  ELSE text

\* Index of the last sep in s, 0 when there is none.
LastIndex(s, sep) ==
  LET hits == {i \in 1..Len(s) : s[i] = sep}
  IN  IF hits = {} THEN 0 ELSE CHOOSE i \in hits : \A j \in hits : j <= i

\* Variant: split('.', 1), at the first '.' instead of the last.
RSplit_First(s, sep) ==
  LET hits == {i \in 1..Len(s) : s[i] = sep}
      k == IF hits = {} THEN 0 ELSE CHOOSE i \in hits : \A j \in hits : i <= j
  IN  IF k = 0 THEN <<s>>
      ELSE <<SubSeq(s, 1, k - 1), SubSeq(s, k + 1, Len(s))>>

\* out_file.rsplit('.', 1): one part when there is no '.', else two.
RSplit(s, sep) ==
  LET k == LastIndex(s, sep)
  IN  IF k = 0 THEN <<s>>
      ELSE <<SubSeq(s, 1, k - 1), SubSeq(s, k + 1, Len(s))>>

\* Keys of Writer.dump_params.
DumpParams == {<<"json">>, <<"csv">>}

\* f'{file_name}.{ext}'
JoinName(file_name, ext) == file_name \o <<".">> \o ext

\* pd.read_json(StringIO(res_text)) raises ValueError on text that is not
\* JSON, and on a top-level object whose members are scalars (a frame of
\* scalar columns has no index).
ReadJsonOk(text) ==
  LET v == JsonLoads(text)
  IN  v.ok /\ ~(v.val.kind = "dict" /\ v.val.pairs > 0)

\* str(response.status_code)[0]
RECURSIVE LeadingDigit(_)
LeadingDigit(n) == IF n < 10 THEN n ELSE LeadingDigit(n \div 10)

\* response.raise_for_status() raises HTTPError for 4xx and 5xx.
RaiseForStatusRaises(st) == 400 <= st /\ st < 600

(***************************************************************************)
(* State of one run.                                                       *)
(***************************************************************************)
VARIABLES
  argv,       \* the command line
  pc,         \* where the run is: main, init, await, status, route, save, done
  payload,    \* vars(args): method, endpoint, data, output
  requests,   \* HTTP requests sent, in order: method, url, body
  status,     \* status code of the response, 0 before there is one
  body,       \* response.text
  saveCalls,  \* calls of Writer.save, in order: out_file, res_text
  pretty,     \* values handed to pprint, in order
  files,      \* names of the files written
  stdout,     \* messages printed, in order
  raised,     \* exception classes raised, in order
  escaped,    \* class of an exception that left main, "none" otherwise
  exitCode,   \* exit status of the process, -1 while it runs
  steps       \* steps entered, in order

vars ==
  <<argv, pc, payload, requests, status, body, saveCalls, pretty, files,
    stdout, raised, escaped, exitCode, steps>>

NoPayload == [method |-> "", endpoint |-> "", data |-> None, output |-> None]

Init ==
  /\ argv \in Argvs
  /\ pc = "main"
  /\ payload = NoPayload
  /\ requests = <<>>
  /\ status = 0
  /\ body = <<>>
  /\ saveCalls = <<>>
  /\ pretty = <<>>
  /\ files = {}
  /\ stdout = <<>>
  /\ raised = <<>>
  /\ escaped = "none"
  /\ exitCode = -1
  /\ steps = <<>>

(***************************************************************************)
(* How a run ends.                                                         *)
(***************************************************************************)
\* main returns and the script ends: the interpreter exits with status 0.
Return(out) ==
  /\ stdout' = out
  /\ raised' = raised
  /\ escaped' = "none"
  /\ exitCode' = 0
  /\ pc' = "done"

\* An exception reaches main's handlers: SystemExit prints the hint and
\* returns, any other Exception is printed; both let main end normally.
\* An exception neither clause matches leaves main with a traceback.
MainExcept(out, cls, code, msg) ==
  /\ raised' = Append(raised, cls)
  /\ stdout' = IF IsInstance(cls, "SystemExit") THEN Append(out, HintMsg(code))
               ELSE IF MainCatches(cls) THEN Append(out, msg)
               ELSE out
  /\ escaped' = IF MainCatches(cls) THEN "none" ELSE cls
  /\ exitCode' = IF MainCatches(cls) THEN 0 ELSE 1
  /\ pc' = "done"

\* An exception raised inside the constructor's try block: except Exception
\* prints it, the constructor returns and main ends normally; what the
\* clause does not match goes on to main.
InitExcept(out, cls, msg) ==
  IF InitCatches(cls)
  THEN /\ raised' = Append(raised, cls)
       /\ stdout' = Append(out, msg)
       /\ escaped' = "none"
       /\ exitCode' = 0
       /\ pc' = "done"
  ELSE MainExcept(out, cls, 1, msg)

(***************************************************************************)
(* main: parser.parse_args().                                              *)
(***************************************************************************)
Choices == {"get", "post"}

\* parse_args exits with status 2 on a command line it rejects.
ArgError(a) ==
  \/ a.extra = "unknown"
  \/ Len(a.positionals) < 2
  \/ a.positionals[1] \notin Choices

ParseArgs ==
  /\ pc = "main"
  /\ steps' = Append(steps, "parse")
  /\ UNCHANGED <<argv, requests, status, body, saveCalls, pretty, files>>
  /\ IF argv.extra = "help"
     THEN /\ MainExcept(Append(stdout, HelpMsg), "SystemExit", 0, "")
          /\ payload' = payload
     ELSE IF ArgError(argv)
     THEN /\ MainExcept(Append(stdout, UsageMsg), "SystemExit", 2, "")
          /\ payload' = payload
     ELSE /\ payload' = [method |-> argv.positionals[1],
                         endpoint |-> argv.positionals[2],
                         data |-> argv.data,
                         output |-> argv.output]
          /\ pc' = "init"
          /\ UNCHANGED <<stdout, raised, escaped, exitCode>>

(***************************************************************************)
(* APITester.__init__, line 97: getattr(self, method)(url).                *)
(***************************************************************************)
\* get: requests.get(url) carries no body.
Get ==
  /\ requests' = Append(requests,
       [method |-> "GET", url |-> Url(payload.endpoint), body |-> NoBody])
  /\ pc' = "await"
  /\ UNCHANGED <<stdout, raised, escaped, exitCode>>

\* What json.loads raised inside post: the except clause of post turns a
\* matching class into the invalid-data Exception, any other goes on as is.
PostExcept(cls, msg) ==
  IF PostCatches(cls)
  THEN InitExcept(stdout, "Exception", InvalidInputMsg)
  ELSE InitExcept(stdout, cls, msg)

\* post: json.loads(data) raises TypeError on None and JSONDecodeError on a
\* string that is not JSON; the decoded value goes to requests.post as data.
Post ==
  IF ~payload.data.some
  THEN /\ PostExcept("TypeError", TypeErrorMsg)
       /\ requests' = requests
  ELSE LET d == JsonLoads(payload.data.val) IN
       IF ~d.ok
       THEN /\ PostExcept("JSONDecodeError", DataDecodeMsg)
            /\ requests' = requests
       ELSE IF EncodeDataRaises(d.val)
       THEN /\ InitExcept(stdout, "ValueError", EncodeMsg)
            /\ requests' = requests
       ELSE /\ requests' = Append(requests,
                 [method |-> "POST", url |-> Url(payload.endpoint),
                  body |-> EncodeData(d.val)])
            /\ pc' = "await"
            /\ UNCHANGED <<stdout, raised, escaped, exitCode>>

Dispatch ==
  /\ pc = "init"
  /\ steps' = Append(steps, "request")
  /\ UNCHANGED <<argv, payload, status, body, saveCalls, pretty, files>>
  /\ IF payload.method = "get" THEN Get ELSE Post

(***************************************************************************)
(* The network: the request fails, or a response arrives.                  *)
(***************************************************************************)
NetworkError ==
  /\ pc = "await"
  /\ InitExcept(stdout, "ConnectionError", NetworkMsg)
  /\ UNCHANGED <<argv, payload, requests, status, body, saveCalls, pretty,
                 files, steps>>

Respond ==
  /\ pc = "await"
  /\ \E st \in Statuses : status' = st
  /\ pc' = "status"
  /\ UNCHANGED <<argv, payload, requests, body, saveCalls, pretty, files,
                 stdout, raised, escaped, exitCode, steps>>

(***************************************************************************)
(* APITester.__init__, lines 99-108: the status line, raise_for_status,    *)
(* and the leading-digit test that opens the else block.                   *)
(***************************************************************************)
\* Variant: the else block without the leading-digit test.
StatusCheck_NoDigitTest ==
  /\ pc = "status"
  /\ steps' = Append(steps, "status")
  /\ UNCHANGED <<argv, payload, requests, status, body, saveCalls, pretty, files>>
  /\ LET out == Append(stdout, StatusMsg) IN
     IF RaiseForStatusRaises(status)
     THEN InitExcept(out, "HTTPError", HttpErrorMsg)
     ELSE /\ stdout' = out
          /\ pc' = "route"
          /\ UNCHANGED <<raised, escaped, exitCode>>

StatusCheck ==
  /\ pc = "status"
  /\ steps' = Append(steps, "status")
  /\ UNCHANGED <<argv, payload, requests, status, body, saveCalls, pretty, files>>
  /\ LET out == Append(stdout, StatusMsg) IN
     IF RaiseForStatusRaises(status)
     THEN InitExcept(out, "HTTPError", HttpErrorMsg)
     ELSE IF LeadingDigit(status) # 2
     THEN MainExcept(out, "Exception", 1, NonSuccessMsg)
     ELSE /\ stdout' = out
          /\ pc' = "route"
          /\ UNCHANGED <<raised, escaped, exitCode>>

(***************************************************************************)
(* APITester.__init__, lines 112-120: the output route.  response.text is  *)
(* first read here, so the environment's choice of the body is made here.  *)
(***************************************************************************)
\* pprint(response.json()); a body that is not JSON raises.
PrettyPrint(text) ==
  LET v == JsonLoads(text) IN
  /\ saveCalls' = saveCalls
  /\ IF v.ok
     THEN /\ pretty' = Append(pretty, v.val)
          /\ Return(stdout)
     ELSE /\ pretty' = pretty
          /\ MainExcept(stdout, "JSONDecodeError", 1, BodyDecodeMsg)

\* self.save(output, res_text) is entered.
CallSave(out_file, text) ==
  /\ saveCalls' = Append(saveCalls, [out_file |-> out_file, res_text |-> Normalize(text)])
  /\ pc' = "save"
  /\ UNCHANGED <<pretty, stdout, raised, escaped, exitCode>>

Output ==
  /\ pc = "route"
  /\ steps' = Append(steps, "output")
  /\ UNCHANGED <<argv, payload, requests, status, files>>
  /\ \E text \in Bodies :
       /\ body' = text
       /\ IF Truthy(payload.output)
          THEN CallSave(payload.output.val, text)
          ELSE PrettyPrint(text)

(***************************************************************************)
(* Writer.save.                                                            *)
(***************************************************************************)
\* getattr(df, f'to_{ext}')(f'{file_name}.{ext}', ...): the file is written,
\* or it cannot be opened for writing (OSError).
WriteFile(name) ==
  \/ /\ files' = files \cup {name}
     /\ Return(stdout)
  \/ /\ files' = files
     /\ MainExcept(stdout, "OSError", 1, WriteMsg)

Save ==
  /\ pc = "save"
  /\ steps' = Append(steps, "write")
  /\ UNCHANGED <<argv, payload, requests, status, body, saveCalls, pretty>>
  /\ LET call == saveCalls[Len(saveCalls)]
         parts == RSplit(call.out_file, ".")
     IN  IF ~ReadJsonOk(call.res_text)
         THEN /\ MainExcept(stdout, "ValueError", 1, ReadJsonMsg)
              /\ files' = files
         ELSE IF Len(parts) # 2
         THEN /\ MainExcept(stdout, "ValueError", 1, UnpackMsg)
              /\ files' = files
         ELSE IF parts[2] \in DumpParams
         THEN WriteFile(JoinName(parts[1], parts[2]))
         ELSE /\ Return(Append(stdout, NotImplementedMsg))
              /\ files' = files

Next ==
  \/ ParseArgs
  \/ Dispatch
  \/ NetworkError
  \/ Respond
  \/ StatusCheck
  \/ Output
  \/ Save

Spec == Init /\ [][Next]_vars

(***************************************************************************)
(* Vocabulary of the properties.                                           *)
(***************************************************************************)
Success(st) == 200 <= st /\ st <= 299

\* json.dumps(v), without whitespace: the text of a JSON-encoded body.
RECURSIVE JsonDumps(_)
JsonDumps(v) ==
  IF v.kind = "dict"
  THEN IF v.pairs = 0 THEN <<"{", "}">> ELSE <<"{", "p", "}">>
  ELSE IF v.elems = <<>> THEN <<"[", "]">>
  ELSE <<"[">> \o JsonDumps(v.elems[1]) \o <<"]">>

\* The body a request carries when the value is sent JSON-encoded.
JsonBody(v) == [kind |-> "json", text |-> JsonDumps(v)]

\* A JSON array each of whose elements is an object.
IsRecordArray(v) ==
  v.kind = "list" /\ \A i \in 1..Len(v.elems) : v.elems[i].kind = "dict"

Printed(msg) == \E i \in 1..Len(stdout) : stdout[i] = msg

LastPrinted == IF stdout = <<>> THEN "" ELSE stdout[Len(stdout)]

OutputWritten == files # {} \/ pretty # <<>> \/ saveCalls # <<>>

\* The path ends in ".json" or ".csv".
JsonOrCsvPath(path) ==
  /\ Len(path) >= 2
  /\ path[Len(path) - 1] = "."
  /\ path[Len(path)] \in {"json", "csv"}

\* The order in which a run may enter its steps; "write" is the Output
\* Writer's part of the output step.
StepOrder == <<"parse", "request", "status", "output", "write">>

IsPrefix(s, t) == Len(s) <= Len(t) /\ s = SubSeq(t, 1, Len(s))

(***************************************************************************)
(* C1. A response whose status lies outside 200..299 leaves no output: no  *)
(* file, nothing pretty-printed, the Output Writer not entered; the run    *)
(* goes from the status check straight to its end, and the last thing it   *)
(* prints is the failure message.                                          *)
(***************************************************************************)
C1_NonSuccessNoOutput ==
  (status # 0 /\ ~Success(status)) =>
    /\ ~OutputWritten
    /\ pc \in {"status", "done"}
    /\ pc = "done" => LastPrinted \in {HttpErrorMsg, NonSuccessMsg}

C1_Witness ==
  /\ pc = "done"
  /\ status = 300
  /\ Truthy(payload.output)
  /\ LastPrinted = NonSuccessMsg
  /\ ~OutputWritten

(***************************************************************************)
(* C2. A POST run with no -d fails with the invalid-data error whatever    *)
(* the endpoint and the output setting: that message is what the run       *)
(* prints, no request is sent and no output is produced.                   *)
(***************************************************************************)
C2_PostWithoutData ==
  (payload.method = "post" /\ ~payload.data.some) =>
    /\ requests = <<>>
    /\ ~OutputWritten
    /\ pc \in {"init", "done"}
    /\ pc = "done" => stdout = <<InvalidInputMsg>> /\ raised = <<"Exception">>

C2_Witness ==
  /\ pc = "done"
  /\ payload.method = "post"
  /\ payload.endpoint = "posts/1"
  /\ ~payload.data.some
  /\ Truthy(payload.output)
  /\ stdout = <<InvalidInputMsg>>
  /\ requests = <<>>

(***************************************************************************)
(* C3. A malformed command line is reported by the usage text and the -h   *)
(* hint, no request is issued, and the process ends with a non-zero exit   *)
(* status.                                                                 *)
(***************************************************************************)
C3_ArgErrorExitsNonZero ==
  (pc = "done" /\ argv.extra # "help" /\ ArgError(argv)) =>
    /\ Printed(UsageMsg)
    /\ LastPrinted = HintMsg(2)
    /\ requests = <<>>
    /\ exitCode # 0

(***************************************************************************)
(* C4, as claimed. After a 2xx response exactly one route is taken: with   *)
(* no output path the decoded body is pretty-printed and no file is        *)
(* written; with an output path the text goes to the Output Writer and     *)
(* nothing is pretty-printed.                                              *)
(***************************************************************************)
C4_RouteAsClaimed ==
  (pc = "done" /\ Success(status)) =>
    IF payload.output.some
    THEN Len(saveCalls) = 1 /\ pretty = <<>>
    ELSE Len(pretty) = 1 /\ saveCalls = <<>> /\ files = {}

(***************************************************************************)
(* C4, amended. After a 2xx response exactly one route is taken, chosen by *)
(* whether the output path is non-empty.  Absent or empty: the Output      *)
(* Writer is not entered, no file is written, and the body is              *)
(* pretty-printed when it decodes as JSON; when it does not, nothing is    *)
(* pretty-printed and the decode error is printed.  Non-empty: the text    *)
(* goes to the Output Writer once, with that path, and nothing is          *)
(* pretty-printed.                                                         *)
(***************************************************************************)
C4_RouteByNonEmptyPath ==
  (pc \in {"save", "done"} /\ Success(status)) =>
    IF payload.output.some /\ payload.output.val # <<>>
    THEN /\ Len(saveCalls) = 1
         /\ saveCalls[1].out_file = payload.output.val
         /\ pretty = <<>>
    ELSE /\ saveCalls = <<>>
         /\ files = {}
         /\ IF JsonLoads(body).ok
            THEN pretty = <<JsonLoads(body).val>>
            ELSE pretty = <<>> /\ LastPrinted = BodyDecodeMsg

C4_Witness ==
  /\ pc = "done"
  /\ status = 200
  /\ payload.output = Some(<<>>)
  /\ body = <<"{", "p", "}">>
  /\ pretty = <<Dict(1)>>
  /\ saveCalls = <<>>

(***************************************************************************)
(* C5. When the Output Writer has read the text and the path's extension   *)
(* is neither json nor csv (.xml, .JSON, no extension at all), it prints   *)
(* the not-implemented notice, writes no file, and nothing fails.          *)
(***************************************************************************)
C5_UnsupportedExtensionNotice ==
  ( /\ pc = "done"
    /\ saveCalls # <<>>
    /\ ReadJsonOk(saveCalls[1].res_text)
    /\ ~JsonOrCsvPath(saveCalls[1].out_file) ) =>
    /\ LastPrinted = NotImplementedMsg
    /\ files = {}
    /\ raised = <<>>

(***************************************************************************)
(* C6, as claimed. A 2xx run with an output path whose extension is json   *)
(* or csv writes exactly one file, named exactly as the path supplied      *)
(* (read with a file system that accepts the write).                       *)
(***************************************************************************)
C6_OneFileAsClaimed ==
  ( /\ pc = "done"
    /\ raised # <<"OSError">>
    /\ Success(status)
    /\ Truthy(payload.output)
    /\ JsonOrCsvPath(payload.output.val) ) =>
    files = {payload.output.val}

(***************************************************************************)
(* C6, amended. A 2xx run with an output path whose extension is json or   *)
(* csv writes exactly one file, named exactly as the path supplied,        *)
(* provided the Output Writer can read the text it is handed and the file  *)
(* can be opened for writing; otherwise it writes no file.  No run writes  *)
(* a file under any other name.                                            *)
(***************************************************************************)
C6_OneFileWhenReadable ==
  /\ files \subseteq {payload.output.val}
  /\ ( /\ pc = "done"
       /\ Success(status)
       /\ Truthy(payload.output)
       /\ JsonOrCsvPath(payload.output.val) ) =>
       IF ReadJsonOk(Normalize(body)) /\ raised = <<>>
       THEN files = {payload.output.val}
       ELSE files = {} /\ raised \in {<<"ValueError">>, <<"OSError">>}

C6_Witness ==
  /\ pc = "done"
  /\ status = 200
  /\ payload.output = Some(<<"a", ".", "b", ".", "csv">>)
  /\ files = {<<"a", ".", "b", ".", "csv">>}
  /\ raised = <<>>

(***************************************************************************)
(* C7. Every failure that is not an argument-parsing error ends the run:   *)
(* its message is the last thing printed, no exception leaves main, and    *)
(* nothing runs after it: the run is over with that one exception, at most *)
(* the one request sent before it, no file written and nothing             *)
(* pretty-printed.                                                         *)
(***************************************************************************)
C7_FailuresAreTerminal ==
  (raised # <<>> /\ raised[1] # "SystemExit") =>
    /\ pc = "done"
    /\ Len(raised) = 1
    /\ escaped = "none"
    /\ LastPrinted \in FailureMsgs
    /\ Len(requests) <= 1
    /\ files = {}
    /\ pretty = <<>>

C7_Witness ==
  /\ pc = "done"
  /\ raised = <<"ValueError">>
  /\ LastPrinted = UnpackMsg
  /\ escaped = "none"
  /\ Len(saveCalls) = 1

(***************************************************************************)
(* C8. The body of every request sent is fixed by the descriptor: a GET    *)
(* carries none, with or without -d; a POST carries the value decoded from *)
(* the -d string, JSON-encoded.                                            *)
(***************************************************************************)
C8_RequestBody ==
  \A i \in 1..Len(requests) :
    IF requests[i].method = "GET"
    THEN requests[i].body = NoBody
    ELSE requests[i].body = JsonBody(JsonLoads(payload.data.val).val)

(***************************************************************************)
(* C9, as claimed. Whenever the Output Writer is entered the text it gets  *)
(* is a JSON array of records: a body that is a single JSON object comes   *)
(* wrapped in '[' and ']', a body that is a JSON array comes unchanged.    *)
(***************************************************************************)
C9_ArrayAsClaimed ==
  \A i \in 1..Len(saveCalls) :
    LET text == saveCalls[i].res_text
        b == JsonLoads(body)
    IN  /\ JsonLoads(text).ok /\ IsRecordArray(JsonLoads(text).val)
        /\ b.ok /\ b.val.kind = "dict" => text = <<"[">> \o body \o <<"]">>
        /\ b.ok /\ b.val.kind = "list" => text = body

(***************************************************************************)
(* C9, amended. Whenever the Output Writer is entered, the text it gets is *)
(* the body wrapped in '[' and ']' exactly when the body starts with '{'   *)
(* and ends with '}', and the body unchanged otherwise.  So a single JSON  *)
(* object with no whitespace around it arrives as the JSON array of that   *)
(* one record, and a JSON array arrives unchanged; a body without that     *)
(* first and last character (an object with whitespace around it, an empty *)
(* body) arrives as it came, and is no JSON text if the body was none.     *)
(***************************************************************************)
C9_WrapByBraces ==
  \A i \in 1..Len(saveCalls) :
    LET text == saveCalls[i].res_text
        b == JsonLoads(body)
        braces == body # <<>> /\ body[1] = "{" /\ body[Len(body)] = "}"
    IN  /\ text = IF braces THEN <<"[">> \o body \o <<"]">> ELSE body
        /\ (b.ok /\ b.val.kind = "dict" /\ body[1] # " " /\ body[Len(body)] # " ") =>
             /\ JsonLoads(text).ok
             /\ JsonLoads(text).val = List(<<b.val>>)
             /\ IsRecordArray(JsonLoads(text).val)
        /\ (b.ok /\ b.val.kind = "list") => text = body
        /\ ~b.ok /\ ~braces => ~JsonLoads(text).ok

C9_Witness ==
  /\ pc = "done"
  /\ body = <<"{", "p", "}">>
  /\ Len(saveCalls) = 1
  /\ saveCalls[1].res_text = <<"[", "{", "p", "}", "]">>
  /\ files = {<<"out", ".", "json">>}

(***************************************************************************)
(* C10. A run is linear and single-shot: the steps are entered in the      *)
(* order parse, request, status check, output, none twice; at most one     *)
(* request is sent, and exactly one in a finished run whose arguments      *)
(* parsed and whose -d string, for a POST, decoded.                        *)
(***************************************************************************)
C10_LinearSingleShot ==
  /\ IsPrefix(steps, StepOrder)
  /\ Len(requests) <= 1
  /\ ( /\ pc = "done"
       /\ payload # NoPayload
       /\ payload.method = "post" =>
            payload.data.some /\ JsonLoads(payload.data.val).ok ) =>
       Len(requests) = 1

\* The part of C10 that does not count the requests of a finished run.
C10_OrderAndAtMostOne ==
  /\ IsPrefix(steps, StepOrder)
  /\ Len(requests) <= 1

====
